---- MODULE Spec2Model ----
(***************************************************************************)
(* Verification model of the mui-format component toolkit: the Group       *)
(* Widget (Parent), the scalar Node widgets, the Form and Search           *)
(* controllers, the List Field Widget (ArrayNode), the Dynamic Option      *)
(* Sources of Shared.js and the Results table.                             *)
(*                                                                         *)
(* Each component has its own specification (SpecGroup, SpecForm, ...)     *)
(* over one shared set of variables; the variables of the components a     *)
(* specification does not exercise stay at their construction values.      *)
(*                                                                         *)
(* React's setState is modelled as taking effect at the end of the handler *)
(* that calls it: one action is one whole handler together with the state  *)
(* update it schedules.                                                    *)
(***************************************************************************)
EXTENDS Integers, Sequences, FiniteSets, TLC

VARIABLES
    \* ---- Group Widget (Parent) and its scalar children (Node / NodeBase)
    mode,       \* props.type of the Parent: "create" | "search" | "update"
    returnAll,  \* props.returnAll
    validation, \* props.validation
    orig,       \* props.value handed to the Parent at construction
    fval,       \* per child: NodeBase state.value (raw)
    ferr,       \* per child: NodeBase state.error (NoError or a message)
    sop,        \* per child: SearchOption state.value (search mode)
    gphase      \* observation: how the last handler run on the Group Widget
                \* ended: "idle" | "set" | "threw"

VARIABLES
    \* ---- Form Controller (Form) around the Group Widget
    fprops,     \* props: beforeSubmit, overrideSubmit
    inflight,   \* submissions sent and not yet answered, in sending order
    calls,      \* how often Rest.create/update, overrideSubmit and
                \* props.success have been called
    lastEvent,  \* the last Events.trigger(kind, payload)
    fphase      \* observation: how the last Form handler ended

VARIABLES
    \* ---- List Field Widget (ArrayNode)
    elements,   \* state.elements: the list of {value, key}
    nodes,      \* this.nodes: the refs render() collected, and per ref the
                \* value its child widget currently reads as
    uuids,      \* how many synthetic keys uuidv4() has handed out
    aphase      \* observation: the last ArrayNode handler and how it ended

VARIABLES
    \* ---- Scalar Field Widget (Node): resolution of the widget kind
    snode,      \* props.node: primitive type, options(), special('react')
    svalue,     \* props.value
    sstate,     \* this.state of the Node: {display, type, value}
    sphase      \* observation: "unbuilt" | "built" | "threw"

VARIABLES
    \* ---- Dynamic Option Source (SelectBase / SelectCustom / SelectRest)
    skind,      \* the class of the instance: "custom" | "rest"
    callbacks,  \* this._callbacks, in registration order
    sdata,      \* this._data
    fetched,    \* this._fetched (SelectRest)
    fetches,    \* how many rest.read requests the instance has issued
    pending,    \* how many of them have not been answered yet
    received,   \* per callback function: how often it has been called
    gone,       \* observation: the callbacks whose last track call was a
                \* removal (track(callback, true))
    sets,       \* how often set(data) has been called (SelectCustom)
    sevent,     \* the last events.trigger of the instance
    slast,      \* observation: the last call made on the instance
    live        \* the components using the source that are mounted

VARIABLES
    \* ---- Search Controller (Search) and the URL-fragment slot it uses
    slot,       \* the hash slot props.hash: unset, or the text stored in it
    changed,    \* a change of the slot has not been delivered to the
                \* subscribers yet
    mounted,    \* a Search Controller is mounted (and subscribed)
    reads,      \* how many rest.read requests the controller has issued
    lastFilter, \* the filter of the last of them
    xpending,   \* how many of them have not been answered yet
    queried,    \* observation: the Group Widget value the last query() that
                \* stored one has read
    xlast       \* observation: the last Search handler that ran

VARIABLES
    \* ---- Results Table (Results)
    rprops,     \* props: data, totals
    rdata,      \* state.data: the rows the table holds, in display order
    rorder,     \* state.order: "asc" | "desc"
    rorderBy,   \* state.orderBy: the active sort column
    rtotals,    \* state.totals
    rlast       \* observation: the last Results handler that ran

VARIABLES
    \* ---- Results Table (Results): paging, CSV export and inline edit
    rpage,      \* state.page
    rperPage,   \* state.rowsPerPage (-1: all rows)
    rupdate,    \* props.update: "false" | "true" | "function"
    redit,      \* the primary keys of the rendered rows whose ResultsRow is
                \* in edit mode (its state `update`)
    rexport,    \* the last CSV download the table has produced
    revent,     \* the last events.trigger of the table
    rupdated    \* the records props.update has been called with

VARIABLES
    \* ---- Scalar Field Widget (Node) with its SearchOption
    wtype,      \* state.type: the widget kind of the Node
    wmode,      \* props.type: "search" | "update"
    wel,        \* this.el.state.value: what the element holds
    wsel,       \* this.search.state.value: the operator selected in the
                \* SearchOption, "null" when it offers none
    wlast       \* observation: the last handler that ran on the Node

VARIABLES
    \* ---- Group Widget with dynamicOptions: bindings, their SelectHash
    \* sources and the select widgets of the dependent fields
    dbind,      \* props.dynamicOptions: the list of {node, trigger} bindings
    tval,       \* per trigger field: the value its widget holds
    dkey,       \* per binding: this._key of the SelectHash made for it
    dopts,      \* per dependent field: state.options of its select widget
    dval,       \* per dependent field: state.value of its select widget
    dlast       \* observation: the last handler that ran

groupVars == <<mode, returnAll, validation, orig, fval, ferr, sop, gphase>>
formVars  == <<fprops, inflight, calls, lastEvent, fphase>>
arrayVars == <<elements, nodes, uuids, aphase>>
typeVars  == <<snode, svalue, sstate, sphase>>
selVars   == <<skind, callbacks, sdata, fetched, fetches, pending, received,
               gone, sets, sevent, slast, live>>
searchVars == <<slot, changed, mounted, reads, lastFilter, xpending, queried,
                xlast>>
resVars   == <<rprops, rdata, rorder, rorderBy, rtotals, rlast>>
widgetVars == <<wtype, wmode, wel, wsel, wlast>>
tableVars == <<rpage, rperPage, rupdate, redit, rexport, revent, rupdated>>
dynVars   == <<dbind, tval, dkey, dopts, dval, dlast>>

vars == <<groupVars, formVars, arrayVars, typeVars, selVars, searchVars,
          resVars, widgetVars, tableVars, dynVars>>

\* what the handlers of one component leave alone
notGroup == <<formVars, arrayVars, typeVars, selVars, searchVars, resVars,
             widgetVars, tableVars, dynVars>>
notForm  == <<arrayVars, typeVars, selVars, searchVars, resVars,
             widgetVars, tableVars, dynVars>>
notArray == <<groupVars, formVars, typeVars, selVars, searchVars, resVars,
             widgetVars, tableVars, dynVars>>
notType  == <<groupVars, formVars, arrayVars, selVars, searchVars, resVars,
             widgetVars, tableVars, dynVars>>
notSel   == <<groupVars, formVars, arrayVars, typeVars, searchVars, resVars,
             widgetVars, tableVars, dynVars>>
notSearch == <<formVars, arrayVars, typeVars, selVars, resVars,
             widgetVars, tableVars, dynVars>>
notRes   == <<groupVars, formVars, arrayVars, typeVars, selVars, searchVars,
             widgetVars, tableVars, dynVars>>
notWidget == <<groupVars, formVars, arrayVars, typeVars, selVars, searchVars,
               resVars, tableVars, dynVars>>
notTable == <<groupVars, formVars, arrayVars, typeVars, selVars, searchVars,
              widgetVars, dynVars>>

-----------------------------------------------------------------------------
(* JavaScript values.  Every value is a tagged tuple so that values of     *)
(* different JavaScript types can be compared (===) without a type error.  *)

Null  == <<"null">>
Undef == <<"undefined">>
Str(s) == <<"str", s>>
\* the search descriptor {type: op, value: v} built by Node.value
Desc(op, v) == <<"obj", op, v>>

isObject(v) == v[1] = "obj"

\* empty() of @ouroboros/tools as the Parent getter uses it: null, undefined
\* and the falsy primitives are empty, an object is empty when it has no key
\* (a search descriptor always has two)
empty(v) ==
    CASE v = Null     -> TRUE
      [] v = Undef    -> TRUE
      [] v[1] = "str" -> v[2] = ""
      [] OTHER        -> FALSE

\* The empty mapping {} and mappings in general: functions from a set of keys
EmptyMap == [k \in {} |-> Null]

-----------------------------------------------------------------------------
(* The schema (FormatOC tree) the Group Widget is built from: two scalar   *)
(* string fields, "a" required and "b" optional.  "g" names no child.      *)

Keys == {"a", "b"}
GhostKey == "g"
AllKeys == Keys \cup {GhostKey}
Required == {"a"}

\* what a text input can hold
Inputs == {"", "x", "zz"}

\* FormatOC Node.valid(value): null passes only for an optional node, a
\* string passes when it meets the node's constraints ("zz" breaks them)
NodeValid(k, v) ==
    CASE v = Null     -> k \notin Required
      [] v = Undef    -> k \notin Required
      [] v[1] = "str" -> v[2] = "x"
      [] OTHER        -> FALSE

\* state.error === false: the widget shows no error
NoError == "false"

\* FormatOC validation_failures[0][1] after a failed valid()
FailureMsg(k, v) == IF v = Null \/ v = Undef THEN "missing" ELSE "invalid"

SearchOps == {"exact", "start"}

Modes == {"create", "search", "update"}

-----------------------------------------------------------------------------
(* Scalar widget: NodeBase holds the raw input value, Node wraps it and,   *)
(* in search mode, pairs it with the operator of its SearchOption.         *)

\* NodeBase.value (getter): '' reads as null
NodeBaseGet(raw) == IF raw = Str("") THEN Null ELSE raw

\* SearchOption.value (getter) of a text child: the selected operator
SearchOptionGet(op) == op

\* Node.value (getter)
NodeGet(m, raw, op) ==
    LET mValue == NodeBaseGet(raw) IN
    IF mValue = Null THEN Null
    ELSE IF m # "search" THEN mValue
    ELSE IF SearchOptionGet(op) = "exact" THEN mValue
    ELSE Desc(SearchOptionGet(op), mValue)

\* NodeBase.value (setter): stores val and revalidates it against the node
NodeBaseSetErr(k, val) ==
    IF NodeValid(k, val) THEN NoError ELSE FailureMsg(k, val)

\* Node.value (setter): the raw value the element is given ...
NodeSetRaw(m, val) ==
    IF m # "search" THEN val
    ELSE IF ~isObject(val) THEN val
    ELSE val[3]

\* ... and the operator the SearchOption is given (search mode only)
NodeSetOp(m, val, op) ==
    IF m # "search" THEN op
    ELSE IF ~isObject(val) THEN "exact"
    ELSE val[2]

\* NodeText.change / NodeNumber.change: the error a typed value gets
ChangeErr(k, s) ==
    IF validation /\ ~NodeValid(k, IF s = "" THEN Null ELSE Str(s))
    THEN "Invalid Value" ELSE NoError

-----------------------------------------------------------------------------
(* Group Widget (Parent)                                                   *)

\* the value a child reads as, in the current state
FieldValue(k) == NodeGet(mode, fval[k], sop[k])

\* props.value[k]: undefined for a key the original value does not have
OrigAt(k) == IF k \in DOMAIN orig THEN orig[k] ELSE Undef

\* Included with the update-mode comparison made loosely (!= for !==), so
\* that an absent original (undefined) equals an untouched child (null)
IncludedLoose(k) ==
    IF mode = "update" /\ ~returnAll
    THEN /\ OrigAt(k) # FieldValue(k)
         /\ ~(OrigAt(k) = Undef /\ FieldValue(k) = Null)
    ELSE ~empty(FieldValue(k))

\* does the getter put key k into the returned mapping?
Included(k) ==
    IF mode = "update" /\ ~returnAll
    THEN OrigAt(k) # FieldValue(k)
    ELSE ~empty(FieldValue(k))

\* Parent.value (getter)
ParentGet == [k \in {j \in Keys : Included(j)} |-> FieldValue(k)]

\* A mapping assigned to Parent.value is a sequence of <<key, value>> pairs
\* in the object's key order.  The setter walks it and dereferences
\* this.fields[k] for every key: the first key that names no child throws a
\* TypeError, after the keys before it have been pushed down.
FirstForeign(V) ==
    IF \E i \in 1..Len(V) : V[i][1] \notin Keys
    THEN CHOOSE i \in 1..Len(V) :
            /\ V[i][1] \notin Keys
            /\ \A j \in 1..(i-1) : V[j][1] \in Keys
    ELSE Len(V) + 1

SetThrows(V) == FirstForeign(V) <= Len(V)

\* the pairs the setter applies
Applied(V) == SubSeq(V, 1, FirstForeign(V) - 1)

HasKey(V, k) == \E i \in 1..Len(V) : V[i][1] = k
ValOf(V, k) == V[CHOOSE i \in 1..Len(V) : V[i][1] = k][2]

\* the mapping V as a function
AsMap(V) == [k \in {V[i][1] : i \in 1..Len(V)} |-> ValOf(V, k)]

\* Parent.value (setter) on children holding values f, errors e, operators o
ParentSetFrom(V, f, e, o) ==
    LET A == Applied(V) IN
    /\ fval' = [k \in Keys |->
                    IF HasKey(A, k) THEN NodeSetRaw(mode, ValOf(A, k)) ELSE f[k]]
    /\ ferr' = [k \in Keys |->
                    IF HasKey(A, k)
                    THEN NodeBaseSetErr(k, NodeSetRaw(mode, ValOf(A, k)))
                    ELSE e[k]]
    /\ sop'  = [k \in Keys |->
                    IF HasKey(A, k) THEN NodeSetOp(mode, ValOf(A, k), o[k]) ELSE o[k]]

\* Parent.value (setter)
ParentSet(V) == ParentSetFrom(V, fval, ferr, sop)

-----------------------------------------------------------------------------
(* Bounds and input sets of the Group Widget specification                 *)

MaxSetLen == 2

\* values a caller may hand to the constructor
OrigVals == {Str(""), Str("x")}
\* values a caller may assign: plain ones, and search descriptors
PlainVals == {Null, Str("x")}
SearchVals == PlainVals \cup {Desc("start", Str("x"))}

Origs == UNION {[S -> OrigVals] : S \in SUBSET Keys}

\* the mappings of at most MaxSetLen entries with distinct keys (the value
\* given under the key that names no child is never looked at: one is enough)
MappingsOver(vals) ==
    {V \in UNION {[1..n -> (Keys \X vals) \cup {<<GhostKey, Str("x")>>}] :
                        n \in 0..MaxSetLen} :
        \A i, j \in 1..Len(V) : i # j => V[i][1] # V[j][1]}
PlainMappings == MappingsOver(PlainVals)
SearchMappings == MappingsOver(SearchVals)
Mappings(m) == IF m = "search" THEN SearchMappings ELSE PlainMappings

-----------------------------------------------------------------------------
(* Form Controller: construction values (its handlers follow the Group     *)
(* Widget's)                                                               *)

NoEvent == <<"none", "">>

FormConstruct(p) ==
    /\ fprops = p
    /\ inflight = <<>>
    /\ calls = [rest |-> 0, override |-> 0, success |-> 0]
    /\ lastEvent = NoEvent
    /\ fphase = "idle"

\* Form.defaultProps: no beforeSubmit, overrideSubmit false
DefaultFormProps == [before |-> "none", override |-> FALSE]

\* no Form Controller is exercised
FormIdle == FormConstruct(DefaultFormProps)

-----------------------------------------------------------------------------
(* List Field Widget: construction values                                  *)

\* the refs render() collects: one per element, under the element's key,
\* each child keeping the value it holds (a child that is new is built from
\* the element's value)
Render(els, old) ==
    [k \in {els[i].key : i \in 1..Len(els)} |->
        IF k \in DOMAIN old THEN old[k]
        ELSE els[CHOOSE i \in 1..Len(els) : els[i].key = k].value]

\* ArrayNode constructor (uuidv4() modelled as a counter: every key is fresh)
\* followed by the first render
ArrayConstruct(vals) ==
    /\ elements = [i \in 1..Len(vals) |-> [value |-> vals[i], key |-> i]]
    /\ uuids = Len(vals)
    /\ nodes = [k \in 1..Len(vals) |-> vals[k]]
    /\ aphase = "idle"

\* no List Field Widget is exercised (defaultProps.value = [])
ArrayIdle == ArrayConstruct(<<>>)

-----------------------------------------------------------------------------
(* Scalar Field Widget: the values before a Node is constructed            *)

\* node.special('react') without a type and without a default
NoReact == [type |-> "none", default |-> Undef]

NoState == [type |-> "none", default |-> Undef, value |-> Undef]

\* no Node is being resolved: a plain string node not yet constructed
TypeIdle ==
    /\ snode = [type |-> "string", options |-> FALSE, react |-> NoReact]
    /\ svalue = Null
    /\ sstate = NoState
    /\ sphase = "unbuilt"

-----------------------------------------------------------------------------
(* Dynamic Option Source: construction values                              *)

\* the functions that can be handed to track()
Callbacks == {"f", "g"}

\* the option list a source is constructed with (data = [])
NoOptions == "[]"

\* SelectBase / SelectCustom / SelectRest constructors
SelConstruct(kind) ==
    /\ skind = kind
    /\ callbacks = <<>>
    /\ sdata = NoOptions
    /\ fetched = FALSE
    /\ fetches = 0
    /\ pending = 0
    /\ received = [c \in Callbacks |-> 0]
    /\ gone = {}
    /\ sets = 0
    /\ sevent = NoEvent
    /\ slast = "new"
    /\ live = {}

\* no Dynamic Option Source is exercised
SelIdle == SelConstruct("custom")

-----------------------------------------------------------------------------
(* Search Controller: construction values                                  *)

\* hash.get(name, null) === null: the slot is not in the URL fragment
NoSlot == [set |-> FALSE, text |-> <<>>]

\* no Search Controller is mounted and the slot is unset
SearchIdle ==
    /\ slot = NoSlot
    /\ changed = FALSE
    /\ mounted = FALSE
    /\ reads = 0
    /\ lastFilter = EmptyMap
    /\ xpending = 0
    /\ queried = EmptyMap
    /\ xlast = "none"

-----------------------------------------------------------------------------
(* Results Table: construction values                                      *)

\* the visible columns (this.fields) and their types (this.info.types)
Cols == {"x", "t"}
ColType == [x |-> "int", t |-> "time_average"]

\* d[f] of a row that may lack the column
Has(row, f) == f \in DOMAIN row

RECURSIVE SumCol(_, _)
\* oTotals[f] += d[f] || 0, over all rows
SumCol(data, f) ==
    IF Len(data) = 0 THEN 0
    ELSE (IF Has(Head(data), f) THEN Head(data)[f] ELSE 0) + SumCol(Tail(data), f)

\* Results.calculateTotals: nothing for an empty table; the sum for the
\* numeric columns, and ~~(sum / rows) for a time_average column (the cell
\* values of the model are not negative, where ~~ and \div agree)
calculateTotals(types, data) ==
    IF Len(data) = 0 THEN EmptyMap
    ELSE [f \in {c \in Cols : types[c] \in {"int", "uint", "float",
                                             "time_elapsed", "time_average"}} |->
            IF types[f] = "time_average"
            THEN SumCol(data, f) \div Len(data)
            ELSE SumCol(data, f)]

\* Results constructor
ResConstruct(data, order, orderBy, totals) ==
    /\ rprops = [data |-> data, totals |-> totals]
    /\ rdata = data
    /\ rorder = order
    /\ rorderBy = orderBy
    /\ rtotals = IF totals THEN calculateTotals(ColType, data) ELSE EmptyMap
    /\ rlast = "new"

\* no Results Table is exercised: no rows, default props
ResIdle == ResConstruct(<<>>, "asc", "x", FALSE)

-----------------------------------------------------------------------------
(* Scalar Field Widget with its SearchOption: construction values          *)

\* the widget kinds a Node is exercised with
WidgetTypes == {"hidden", "select", "multiselectcsv", "text", "number"}

\* SearchOption constructor: the operators offered for a widget kind
SearchOptions(type) ==
    CASE type \in {"hidden", "select", "multiselectcsv"} -> {}
      [] type \in {"text", "textarea"} -> {"exact", "start", "end", "asterisk"}
      [] OTHER -> {"exact", "greater", "less"}

\* Node constructor and first render, SearchOption constructor
WidgetConstruct(type, m, val) ==
    /\ wtype = type
    /\ wmode = m
    /\ wel = val
    /\ wsel = IF SearchOptions(type) = {} THEN "null" ELSE "exact"
    /\ wlast = "new"

\* no Node of its own is exercised
WidgetIdle == WidgetConstruct("text", "update", Null)

-----------------------------------------------------------------------------
(* Results Table, paging and inline edit: construction values              *)

\* rowsPerPageOptions, scaled down: two page sizes and 'All'
PerPageOptions == {1, 2, -1}

\* no CSV download yet
NoExport == [done |-> FALSE, header |-> {}, records |-> <<>>]

\* Results constructor (state.page, state.rowsPerPage) and props.update;
\* no ResultsRow is in edit mode, nothing exported, no event raised
TableConstruct(perPage, update) ==
    /\ rpage = 0
    /\ rperPage = perPage
    /\ rupdate = update
    /\ redit = {}
    /\ rexport = NoExport
    /\ revent = "none"
    /\ rupdated = <<>>

\* the paging and editing of the table is not exercised
\* (defaultProps.update = false)
TableIdle == TableConstruct(1, "false")

-----------------------------------------------------------------------------
(* Group Widget with dynamicOptions: construction values                   *)

Triggers == {"t1", "t2"}
Dependents == {"d1", "d2"}

\* the keys of the options-by-trigger-value mapping
HashKeys == {"k1", "k2"}

\* one option of a list: the array [key, label]
Opt(o) == <<"arr", o, o>>

\* this._hash[key] of a binding
OptionsOf(key) ==
    IF key = "k1" THEN <<Opt("o1"), Opt("o2")>> ELSE <<Opt("o1")>>

\* this._key in this._hash ? this._hash[this._key] : []
SelectHashData(key) ==
    IF key[1] = "str" /\ key[2] \in HashKeys THEN OptionsOf(key[2]) ELSE <<>>

\* new SelectHash(o.options, this.props.value[o.trigger] || null): a falsy
\* trigger value becomes null, and a null key becomes ''
SelectHashKey(v) == IF empty(v) THEN Str("") ELSE v

\* oDynamicOptions[o.trigger]: the binding whose key() is the trigger's
\* onChange, the last binding of the list that names the trigger (0: none)
Wired(B, t) ==
    IF \E i \in 1..Len(B) : B[i].trigger = t
    THEN CHOOSE i \in 1..Len(B) :
            B[i].trigger = t /\ \A j \in (i+1)..Len(B) : B[j].trigger # t
    ELSE 0

\* the binding whose SelectHash is the 'ui' options of the dependent node
\* when the children are created: the last one that names the node
SourceOf(B, d) ==
    IF \E i \in 1..Len(B) : B[i].node = d
    THEN CHOOSE i \in 1..Len(B) :
            B[i].node = d /\ \A j \in (i+1)..Len(B) : B[j].node # d
    ELSE 0

\* the select widgets that track the SelectHash of binding i
Subscribers(B, i) == {d \in Dependents : SourceOf(B, d) = i}

\* Parent.generateState with dynamicOptions B and trigger values init, and
\* the constructors of the select widgets of the dependent fields
DynConstruct(B, init) ==
    /\ dbind = B
    /\ tval = init
    /\ dkey = [i \in 1..Len(B) |-> SelectHashKey(init[B[i].trigger])]
    /\ dopts = [d \in Dependents |->
                    IF SourceOf(B, d) > 0
                    THEN SelectHashData(
                            SelectHashKey(init[B[SourceOf(B, d)].trigger]))
                    ELSE <<>>]
    /\ dval = [d \in Dependents |-> Null]
    /\ dlast = <<"new">>

\* no Group Widget with dynamicOptions is exercised
DynIdle == DynConstruct(<<>>, [t \in Triggers |-> Null])

-----------------------------------------------------------------------------
(* Group Widget: construction and handlers                                 *)

\* Parent constructor + Node/NodeBase constructors
GroupConstruct ==
    /\ orig \in Origs
    /\ fval = [k \in Keys |-> IF k \in DOMAIN orig THEN orig[k] ELSE Null]
    /\ ferr = [k \in Keys |-> NoError]
    /\ sop  = [k \in Keys |-> "exact"]
    /\ gphase = "idle"

\* no Group Widget is exercised: a create-mode widget without a value
GroupIdle ==
    /\ mode = "create" /\ returnAll = FALSE /\ validation = TRUE
    /\ orig = EmptyMap
    /\ GroupConstruct

\* the user types s into child k (NodeText.change)
GChange(k, s) ==
    /\ fval' = [fval EXCEPT ![k] = Str(s)]
    /\ ferr' = [ferr EXCEPT ![k] = ChangeErr(k, s)]
    /\ gphase' = "idle"
    /\ UNCHANGED <<mode, returnAll, validation, orig, sop>>
    /\ UNCHANGED notGroup

\* the user picks operator op for child k (SearchOption.change)
GOperator(k, op) ==
    /\ mode = "search"
    /\ sop' = [sop EXCEPT ![k] = op]
    /\ gphase' = "idle"
    /\ UNCHANGED <<mode, returnAll, validation, orig, fval, ferr>>
    /\ UNCHANGED notGroup

\* widget.value = V
GSet(V) ==
    /\ ParentSet(V)
    /\ gphase' = IF SetThrows(V) THEN "threw" ELSE "set"
    /\ UNCHANGED <<mode, returnAll, validation, orig>>
    /\ UNCHANGED notGroup

GroupNext ==
    \/ \E k \in Keys, s \in Inputs : GChange(k, s)
    \/ \E k \in Keys, op \in SearchOps : GOperator(k, op)
    \/ \E V \in Mappings(mode) : GSet(V)

\* a Group Widget on its own, in any mode
GroupInit ==
    /\ mode \in Modes
    /\ returnAll \in BOOLEAN
    /\ validation \in (IF mode = "search" THEN BOOLEAN ELSE {TRUE})
    /\ GroupConstruct
    /\ FormIdle
    /\ ArrayIdle
    /\ TypeIdle
    /\ SelIdle
    /\ SearchIdle
    /\ ResIdle
    /\ WidgetIdle
    /\ TableIdle
    /\ DynIdle

SpecGroup == GroupInit /\ [][GroupNext]_vars

-----------------------------------------------------------------------------
(* Claims about the Group Widget                                           *)

\* a child whose input is blank: nothing typed or assigned, or cleared
Blank(k) == fval[k] \in {Null, Undef, Str("")}

\* C2: in create or search mode the mapping the getter returns has no key of
\* a child whose value is empty; in update mode without return-all a key is
\* in the mapping exactly when the child's current value differs from the
\* value originally supplied for it, an absent original counting as
\* different from the null of a child that was never touched.
C2_GetterKeys ==
    /\ mode \in {"create", "search"} =>
            \A k \in DOMAIN ParentGet : ~Blank(k) /\ ParentGet[k] # Null
    /\ (mode = "update" /\ ~returnAll) =>
            \A k \in Keys :
                /\ k \in DOMAIN ParentGet <=> NodeBaseGet(fval[k]) # OrigAt(k)
                /\ (k \notin DOMAIN orig /\ fval[k] = Null) => k \in DOMAIN ParentGet

\* C2 witness: an update-mode widget whose original value lacks "a" and has
\* "b"; "a" was never given a value and is reported, "b" is unchanged and is not
C2_Witness ==
    /\ mode = "update" /\ ~returnAll
    /\ "a" \notin DOMAIN orig /\ fval["a"] = Null /\ "a" \in DOMAIN ParentGet
    /\ "b" \in DOMAIN orig /\ orig["b"] = Str("x") /\ "b" \notin DOMAIN ParentGet

\* the entries of V whose keys are children of the widget
RestrictOwned(V) ==
    [k \in DOMAIN AsMap(V) \cap Keys |-> AsMap(V)[k]]

\* C3 (as claimed): for any mapping V, widget.value = V completes and a read
\* right after it returns exactly the entries of V whose keys are children
\* of the widget, with the values of V.
C3_RoundTrip ==
    [][\A V \in Mappings(mode) :
            GSet(V) => (gphase' = "set" /\ ParentGet' = RestrictOwned(V))]_vars

\* C11 (as claimed): with return-all set the value the getter returns has a
\* key for every child of the widget, also for a child whose value is empty,
\* in create, search and update mode.
C11_ReturnAll == returnAll => DOMAIN ParentGet = Keys

\* C12 (as claimed): assigning a mapping pushes every key that names a child
\* to that child and ignores a key that names no child: no error is raised
\* and the other keys of the mapping are still applied.
C12_SetIgnores ==
    [][\A V \in Mappings(mode) : GSet(V) =>
            /\ gphase' = "set"
            /\ \A k \in Keys : HasKey(V, k) =>
                    fval'[k] = NodeSetRaw(mode, ValOf(V, k))]_vars

-----------------------------------------------------------------------------
(* Form Controller: handlers                                               *)

MaxSubmits == 2

\* the children Parent.valid() finds invalid (every child is a Node here)
InvalidKeys == {k \in Keys : ~NodeValid(k, FieldValue(k))}

\* state.order: the children in the order of the schema
Order == <<"a", "b">>

\* the loop of Parent.valid() left at the first child that fails
RECURSIVE validFirstOnly(_, _)
validFirstOnly(i, acc) ==
    IF i > Len(Order) THEN acc
    ELSE LET k == Order[i] IN
         IF ~NodeValid(k, FieldValue(k))
         THEN [bValid |-> FALSE,
               errs   |-> [acc.errs EXCEPT
                              ![k] = FailureMsg(k, FieldValue(k))]]
         ELSE validFirstOnly(i + 1, acc)

\* the loop of Parent.valid() from child i of state.order on, acc being
\* bValid and the errors on the children so far: an invalid child is given
\* validation_failures[0][1] and the loop goes on
RECURSIVE validFrom(_, _)
validFrom(i, acc) ==
    IF i > Len(Order) THEN acc
    ELSE LET k == Order[i] IN
         IF ~NodeValid(k, FieldValue(k))
         THEN validFrom(i + 1,
                  [bValid |-> FALSE,
                   errs   |-> [acc.errs EXCEPT
                                  ![k] = FailureMsg(k, FieldValue(k))]])
         ELSE validFrom(i + 1, acc)

\* Parent.valid(): the verdict ...
ParentValid == validFrom(1, [bValid |-> TRUE, errs |-> ferr]).bValid

\* ... and the errors it leaves on the children
ParentValidErrs == validFrom(1, [bValid |-> TRUE, errs |-> ferr]).errs

\* the primary key Form.update adds to the values (sendPrimary defaults to
\* true; state.key is null when the original value has no primary key)
WithPrimary(verb) == IF verb = "update" THEN Null ELSE Undef

\* let oValues = this.parent.value, with the primary key update adds to it
oValues(verb) ==
    [values  |-> ParentGet,
     primary |-> WithPrimary(verb),
     through |-> "asis"]

\* the value false
False == [values |-> EmptyMap, primary |-> Undef, through |-> "false"]

\* the caller's beforeSubmit(values, mode), by what it returns: false
\* ("veto"), a falsy value that is not false ("falsy"), or values of its
\* own making ("pass")
beforeSubmit(b, v) ==
    CASE b = "veto"  -> False
      [] b = "falsy" -> [values |-> EmptyMap, primary |-> Undef, through |-> "falsy"]
      [] b = "pass"  -> [v EXCEPT !.through = "beforeSubmit"]

\* beforeSubmit called and its result dropped
SubmitBodyUnchanged(verb) == oValues(verb)

\* what goes on to the backend or to overrideSubmit
SubmitBody(verb) ==
    IF fprops.before = "none"
    THEN oValues(verb)
    ELSE beforeSubmit(fprops.before, oValues(verb))

\* if(oValues === false) return;
Vetoed(verb) == fprops.before # "none" /\ SubmitBody(verb) = False

\* the validity check with its result dropped: the submit goes on
NeverBlocked == FALSE

\* if(!this.parent.valid()) { ... return; }
SubmitBlocked == ~ParentValid

\* a controller that sends nothing while a request of its own is pending
SentOnce(q, r) == IF Len(q) > 0 THEN q ELSE Append(q, r)

\* Rest.create / Rest.update / props.overrideSubmit: every call is a request
\* of its own, whatever is still pending
Sent(q, r) == Append(q, r)

\* Form.create / Form.update up to the point where the request is sent
FormSubmit(verb) ==
    /\ mode = verb
    /\ calls.rest + calls.override < MaxSubmits
    /\ IF SubmitBlocked
       THEN \* fail closed.  Parent.valid() has left its errors on the
            \* children; parent.error(toTree(tree.validation_failures)) that
            \* follows passes the failures of the tree's own last valid(),
            \* which Parent.valid() does not call: nothing is added by it
            /\ ferr' = ParentValidErrs
            /\ lastEvent' = <<"error", "Please fix invalid data">>
            /\ fphase' = "invalid"
            /\ UNCHANGED <<inflight, calls>>
       ELSE IF Vetoed(verb)
       THEN /\ fphase' = "vetoed"
            /\ UNCHANGED <<ferr, lastEvent, inflight, calls>>
       ELSE /\ inflight' = Sent(inflight,
                    [via  |-> IF fprops.override THEN "override" ELSE "rest",
                     verb |-> verb,
                     body |-> SubmitBody(verb)])
            /\ calls' = IF fprops.override
                        THEN [calls EXCEPT !.override = @ + 1]
                        ELSE [calls EXCEPT !.rest = @ + 1]
            /\ fphase' = "sent"
            /\ UNCHANGED <<ferr, lastEvent>>
    /\ UNCHANGED <<mode, returnAll, validation, orig, fval, sop, gphase, fprops>>
    /\ UNCHANGED notForm

FormCreate == FormSubmit("create")
FormUpdate == FormSubmit("update")

RemoveAt(q, i) == SubSeq(q, 1, i - 1) \o SubSeq(q, i + 1, Len(q))

\* Form.createSuccess / Form.updateSuccess
FormSuccess(i) ==
    /\ lastEvent' = <<"success", IF inflight[i].verb = "create"
                                  THEN "Created" ELSE "Saved">>
    /\ calls' = [calls EXCEPT !.success = @ + 1]
    /\ fphase' = "success"
    /\ UNCHANGED ferr

\* code 1001 routed like any other code: broadcast, no field error
FormFieldErrorBroadcast(e) ==
    /\ lastEvent' = <<"error", "JSON.stringify(error.msg)">>
    /\ fphase' = "error"
    /\ UNCHANGED <<ferr, calls>>

\* Form.submitError for the distinguished code 1001, the server naming field e
FormFieldError(e) ==
    /\ IF e \in Keys
       THEN /\ ferr' = [ferr EXCEPT ![e] = "rejected"]
            /\ UNCHANGED lastEvent
       ELSE /\ lastEvent' = <<"error", "Field not found error">>
            /\ UNCHANGED ferr
    /\ fphase' = "fielderror"
    /\ UNCHANGED calls

\* Form.submitError for any other code
FormOtherError(mapped) ==
    /\ lastEvent' = <<"error", IF mapped THEN "props.errors[code]"
                                         ELSE "JSON.stringify(error.msg)">>
    /\ fphase' = "error"
    /\ UNCHANGED <<ferr, calls>>

\* what a submission can be answered with
Outcomes == {"data", "error1001", "errorMapped", "errorOther", "errorHandled"}

\* the answer to submission i arrives (the .done / .then callbacks)
FormResolve(i, out, e) ==
    /\ i \in 1..Len(inflight)
    /\ inflight' = RemoveAt(inflight, i)
    /\ CASE out = "data"        -> FormSuccess(i)
         [] out = "error1001"   -> FormFieldError(e)
         [] out = "errorMapped" -> FormOtherError(TRUE)
         [] out = "errorOther"  -> FormOtherError(FALSE)
         [] out = "errorHandled" ->
                \* res._handled: Rest.done ignores it; a rejected
                \* overrideSubmit promise is routed like any other error
                IF inflight[i].via = "rest"
                THEN /\ fphase' = "ignored"
                     /\ UNCHANGED <<ferr, lastEvent, calls>>
                ELSE FormOtherError(FALSE)
    /\ UNCHANGED <<mode, returnAll, validation, orig, fval, sop, gphase, fprops>>
    /\ UNCHANGED notForm

FormPropsSet == [before : {"none", "veto", "falsy", "pass"}, override : BOOLEAN]

FormInit ==
    /\ mode \in {"create", "update"}
    /\ returnAll = FALSE
    /\ validation = TRUE
    /\ GroupConstruct
    /\ \E p \in FormPropsSet : FormConstruct(p)
    /\ ArrayIdle
    /\ TypeIdle
    /\ SelIdle
    /\ SearchIdle
    /\ ResIdle
    /\ WidgetIdle
    /\ TableIdle
    /\ DynIdle

\* the user edits a child of the form
FormChange(k, s) ==
    /\ fval' = [fval EXCEPT ![k] = Str(s)]
    /\ ferr' = [ferr EXCEPT ![k] = ChangeErr(k, s)]
    /\ fphase' = "idle"
    /\ UNCHANGED <<mode, returnAll, validation, orig, sop, gphase>>
    /\ UNCHANGED <<fprops, inflight, calls, lastEvent>>
    /\ UNCHANGED notForm

FormNext ==
    \/ \E k \in Keys, s \in Inputs : FormChange(k, s)
    \/ FormCreate
    \/ FormUpdate
    \/ \E i \in 1..MaxSubmits, e \in AllKeys : FormResolve(i, "error1001", e)
    \/ \E i \in 1..MaxSubmits, out \in Outcomes \ {"error1001"} :
            \* only a 1001 message names a field
            FormResolve(i, out, GhostKey)

SpecForm == FormInit /\ [][FormNext]_vars

-----------------------------------------------------------------------------
(* Claims about the Form Controller                                        *)

\* C1: a submit (create or update) made while the Group Widget's valid()
\* returns false sends nothing to the backend, calls neither the override
\* submission function nor the success callback, and leaves an inline error
\* on every invalid child.
C1_FailClosed ==
    [][((FormCreate \/ FormUpdate) /\ ~ParentValid) =>
            /\ inflight' = inflight
            /\ calls' = calls
            /\ \A k \in InvalidKeys : ferr'[k] # NoError]_vars

\* C1 witness: a create form whose required field "a" is empty has been
\* submitted: the field carries the error and nothing was sent
C1_Witness ==
    /\ mode = "create" /\ fphase = "invalid"
    /\ FieldValue("a") = Null /\ ferr["a"] = "missing"
    /\ inflight = <<>> /\ calls = [rest |-> 0, override |-> 0, success |-> 0]

\* the step is the arrival of an answer: a submission leaves the queue
Answered == Len(inflight') < Len(inflight)

\* a global error event raised by the step
ErrorEvent(payload) == lastEvent' = <<"error", payload>>

\* C13 (amended): an answer with code 1001 puts the field error on the child
\* the message names and raises no global event when the name is a child of
\* the Group Widget, and raises the global "Field not found error" event,
\* touching no child, when it is not; a code of the caller's mapping raises
\* the mapped message; any other code raises the stringified message; the
\* handler always runs to its end.
C13_Routing ==
    [][/\ \A i \in 1..Len(inflight) :
            /\ \A e \in AllKeys :
                (Answered /\ FormResolve(i, "error1001", e)) =>
                    IF e \in Keys
                    THEN ferr'[e] # NoError /\ lastEvent' = lastEvent
                    ELSE ferr' = ferr /\ ErrorEvent("Field not found error")
            /\ (Answered /\ FormResolve(i, "errorMapped", GhostKey)) =>
                    ferr' = ferr /\ ErrorEvent("props.errors[code]")
            /\ (Answered /\ FormResolve(i, "errorOther", GhostKey)) =>
                    ferr' = ferr /\ ErrorEvent("JSON.stringify(error.msg)")
       /\ Answered => fphase' \in {"success", "fielderror", "error", "ignored"}]_vars

\* C13 witness: the backend has rejected field "b" with code 1001: the
\* child carries the error and no global event has been raised
C13_Witness ==
    /\ fphase = "fielderror" /\ ferr["b"] = "rejected" /\ lastEvent = NoEvent

Submitted ==
    calls'.rest + calls'.override = calls.rest + calls.override + 1

\* C25: a submit of valid values that beforeSubmit lets through issues
\* exactly one request, also while earlier requests are unanswered: the new
\* request joins them and leaves them as they are; and every answer settles
\* one request only, through the success callback or the error routing,
\* whichever request it belongs to, leaving the others pending.
C25_DoubleSubmit ==
    [][/\ (/\ ParentValid /\ ~Vetoed(mode)
           /\ calls.rest + calls.override < MaxSubmits
           /\ fval' = fval /\ ~Answered
           /\ FormSubmit(mode)) =>
                /\ Submitted
                /\ Len(inflight') = Len(inflight) + 1
                /\ SubSeq(inflight', 1, Len(inflight)) = inflight
       /\ Answered =>
                /\ Len(inflight') = Len(inflight) - 1
                /\ \E i \in 1..Len(inflight) :
                        inflight' = [j \in 1..(Len(inflight) - 1) |->
                                        IF j < i THEN inflight[j]
                                        ELSE inflight[j + 1]]
                /\ calls'.rest = calls.rest
                /\ calls'.override = calls.override
                /\ fphase' \in {"success", "fielderror", "error", "ignored"}
       /\ (~Answered /\ inflight' # inflight) => Submitted]_vars

\* C25 witness: a second submit went out while the first was unanswered:
\* two requests are pending and none has been settled
C25_Witness ==
    /\ Len(inflight) = 2
    /\ calls.rest + calls.override = 2
    /\ calls.success = 0
    /\ fphase = "sent"

\* C14: when beforeSubmit returns false a valid submit is aborted: nothing
\* is sent to the backend, the override submission function and the success
\* callback are not called and no notification is raised; when it returns
\* any other value, also a falsy one, that value is what is submitted.
C14_BeforeSubmit ==
    [][\A verb \in {"create", "update"} :
        (fprops.before # "none" /\ ParentValid /\ FormSubmit(verb)) =>
            IF beforeSubmit(fprops.before, oValues(verb)) = False
            THEN /\ inflight' = inflight
                 /\ calls' = calls
                 /\ lastEvent' = lastEvent
            ELSE /\ inflight' = Append(inflight, inflight'[Len(inflight')])
                 /\ inflight'[Len(inflight')].body =
                        beforeSubmit(fprops.before, oValues(verb))
                 /\ calls'.rest + calls'.override =
                        calls.rest + calls.override + 1]_vars

\* C14 witness: an update went out through a beforeSubmit that returned
\* values of its own, and these, not the Group Widget's, are in flight
C14_Witness ==
    /\ fphase = "sent"
    /\ fprops.before = "pass"
    /\ mode = "update"
    /\ Len(inflight) = 1
    /\ inflight[1].body = beforeSubmit("pass", oValues("update"))
    /\ inflight[1].body # oValues("update")

\* C13 (as claimed): an answer with code 1001 becomes field errors on the
\* Group Widget and raises no global error event, whatever field it names.
C13_NoGlobalEvent ==
    [][\A i \in 1..Len(inflight), e \in AllKeys :
        (Answered /\ FormResolve(i, "error1001", e)) =>
            lastEvent' = lastEvent]_vars

-----------------------------------------------------------------------------
(* List Field Widget (ArrayNode): handlers                                 *)

MaxElements == 3
MaxUuids == 5

\* values an element can be given by the caller
ElemVals == {Null, Str("x")}

\* afindi(this.state.elements, 'key', key): the index of the element, or -1
afindi(els, key) ==
    IF \E i \in 1..Len(els) : els[i].key = key
    THEN CHOOSE i \in 1..Len(els) : els[i].key = key
    ELSE -1

\* this.nodes is the plain object render() fills ({} keyed by element key):
\* it has no splice method, so this.nodes.splice(iIndex, 1) is a call of
\* undefined and throws a TypeError
NodesSplice == "TypeError"

\* ArrayNode.add
AAdd ==
    /\ Len(elements) < MaxElements
    /\ uuids < MaxUuids
    /\ uuids' = uuids + 1
    /\ elements' = Append(elements, [value |-> Null, key |-> uuids + 1])
    /\ nodes' = Render(elements', nodes)
    /\ aphase' = "added"
    /\ UNCHANGED notArray

\* ArrayNode.remove(key)
ARemove(key) ==
    LET iIndex == afindi(elements, key) IN
    /\ IF iIndex > -1
       THEN IF NodesSplice = "TypeError"
            THEN \* the handler dies before setState
                 /\ aphase' = "threw"
                 /\ UNCHANGED <<elements, nodes>>
            ELSE /\ elements' = RemoveAt(elements, iIndex)
                 /\ nodes' = Render(elements', nodes)
                 /\ aphase' = "removed"
       ELSE /\ aphase' = "idle"
            /\ UNCHANGED <<elements, nodes>>
    /\ UNCHANGED uuids
    /\ UNCHANGED notArray

\* the user types into the child of element key
AChange(key, s) ==
    /\ key \in DOMAIN nodes
    /\ nodes' = [nodes EXCEPT ![key] = Str(s)]
    /\ aphase' = "idle"
    /\ UNCHANGED <<elements, uuids>>
    /\ UNCHANGED notArray

\* ArrayNode.value (getter): the values of the refs, '' reading as null
ArrayGet ==
    [i \in 1..Len(elements) |-> NodeBaseGet(nodes[elements[i].key])]

\* ArrayNode.value (setter): every element is rebuilt under a fresh key
ASet(vals) ==
    /\ uuids + Len(vals) <= MaxUuids
    /\ uuids' = uuids + Len(vals)
    /\ elements' = [i \in 1..Len(vals) |-> [value |-> vals[i], key |-> uuids + i]]
    /\ nodes' = Render(elements', nodes)
    /\ aphase' = "idle"
    /\ UNCHANGED notArray

ElemLists == UNION {[1..n -> ElemVals] : n \in 0..(MaxElements - 1)}

ArrayNext ==
    \/ AAdd
    \/ \E key \in 1..MaxUuids : ARemove(key)
    \/ \E key \in 1..MaxUuids, s \in Inputs : AChange(key, s)
    \/ \E vals \in ElemLists : ASet(vals)

ArrayInit ==
    /\ \E vals \in ElemLists : ArrayConstruct(vals)
    /\ GroupIdle
    /\ FormIdle
    /\ TypeIdle
    /\ SelIdle
    /\ SearchIdle
    /\ ResIdle
    /\ WidgetIdle
    /\ TableIdle
    /\ DynIdle

SpecArray == ArrayInit /\ [][ArrayNext]_vars

\* the element add() appended last
Newest == elements[Len(elements)]

\* C4 (as claimed): right after add(), remove(key) with the key of the newly
\* added element completes without error and leaves the element list as it
\* was before the add: same values, same order, same synthetic keys.
C4_AddRemove ==
    [][(aphase = "added" /\ ARemove(Newest.key)) =>
            /\ aphase' = "removed"
            /\ elements' = SubSeq(elements, 1, Len(elements) - 1)]_vars

-----------------------------------------------------------------------------
(* Scalar Field Widget (Node): resolution of the widget kind               *)

\* the primitive types of FormatOC, and two names that are none of them
Primitives ==
    {"any", "base64", "bool", "date", "datetime", "decimal", "float", "int",
     "ip", "json", "md5", "price", "string", "time", "timestamp", "uint",
     "uuid", "uuid4"}
Unmapped == {"tuple", "hashed"}

Threw == "threw"

\* Node.defaultType of the earlier version of the file: price is a number
defaultTypeEarlier(type, options) ==
    IF options THEN "select"
    ELSE CASE type \in {"any", "base64", "ip", "json", "md5", "string",
                        "uuid", "uuid4"}                       -> "text"
           [] type \in {"decimal", "float", "int", "price", "timestamp",
                        "uint"}                                -> "number"
           [] type \in {"bool", "date", "datetime", "time"}    -> type
           [] OTHER                                            -> Threw

\* Node.defaultType
defaultType(type, options) ==
    IF options THEN "select"
    ELSE CASE type \in {"any", "base64", "ip", "json", "md5", "string",
                        "uuid", "uuid4"}                       -> "text"
           [] type \in {"decimal", "float", "int", "timestamp",
                        "uint"}                                -> "number"
           [] type \in {"bool", "date", "datetime", "price",
                        "time"}                                -> type
           [] OTHER                                            -> Threw

\* Node.generateState: the display metadata with its default filled in, and
\* the type: the override of the metadata if it has one, else defaultType
generateState(node) ==
    [default |-> IF node.react.default = Undef THEN Null ELSE node.react.default,
     type    |-> IF node.react.type # "none" THEN node.react.type
                 ELSE defaultType(node.type, node.options)]

\* Node constructor
NodeConstruct ==
    /\ sphase = "unbuilt"
    /\ LET st == generateState(snode) IN
       IF st.type = Threw
       THEN /\ sphase' = "threw"
            /\ UNCHANGED sstate
       ELSE /\ sphase' = "built"
            /\ sstate' = [type |-> st.type, default |-> st.default,
                          value |-> IF svalue # Null THEN svalue ELSE st.default]
    /\ UNCHANGED <<snode, svalue>>
    /\ UNCHANGED notType

\* the owner hands the Node another schema node (Node.componentDidUpdate)
NodeUpdate(node) ==
    /\ sphase = "built"
    /\ node # snode
    /\ snode' = node
    /\ LET st == generateState(node) IN
       IF st.type = Threw
       THEN /\ sphase' = "threw"
            /\ UNCHANGED sstate
       ELSE /\ sphase' = "built"
            /\ sstate' = [sstate EXCEPT !.type = st.type, !.default = st.default]
    /\ UNCHANGED svalue
    /\ UNCHANGED notType

\* display metadata: a type override or none, a default or none
Overrides == {"none", "hidden", "select"}
Reacts == [type : Overrides, default : {Undef, Str("d")}]
SchemaNodes == [type : Primitives \cup Unmapped, options : BOOLEAN, react : Reacts]

TypeNext ==
    \/ NodeConstruct
    \/ \E node \in SchemaNodes : NodeUpdate(node)

TypeInit ==
    /\ snode \in SchemaNodes
    /\ svalue \in {Null, Str("x")}
    /\ sstate = NoState
    /\ sphase = "unbuilt"
    /\ GroupIdle
    /\ FormIdle
    /\ ArrayIdle
    /\ SelIdle
    /\ SearchIdle
    /\ ResIdle
    /\ WidgetIdle
    /\ TableIdle
    /\ DynIdle

SpecType == TypeInit /\ [][TypeNext]_vars

\* Node._registered: the names the Node.register calls of the file use
Registered ==
    {"bool", "data", "datetime", "hidden", "multiselectcsv", "number",
     "password", "phone_number", "price", "select", "text", "textarea",
     "time"}

\* Node.render: the error thrown for a state.type that is not registered
RenderThrows == sstate.type \notin Registered

\* C26: a Node built for a schema node without a display override has a
\* widget kind with a registered component: rendering it does not throw
\* 'invalid type'.
C26_Registered ==
    (sphase = "built" /\ snode.react.type = "none") => ~RenderThrows

\* a node whose widget kind comes from the lookup table
Plain == snode.react.type = "none" /\ ~snode.options

\* C5: for a schema node with no type override and no enumerated options,
\* the string-like primitives resolve to text, the numeric ones to number,
\* bool, date, datetime, time and price to themselves, and a primitive
\* outside the table makes the construction throw (and nothing else does).
C5_TypeTable ==
    (Plain /\ sphase # "unbuilt") =>
        /\ snode.type \in {"any", "base64", "ip", "json", "md5", "string",
                           "uuid", "uuid4"}
                => (sphase = "built" /\ sstate.type = "text")
        /\ snode.type \in {"decimal", "float", "int", "timestamp", "uint"}
                => (sphase = "built" /\ sstate.type = "number")
        /\ snode.type \in {"bool", "date", "datetime", "time", "price"}
                => (sphase = "built" /\ sstate.type = snode.type)
        /\ snode.type \notin Primitives <=> sphase = "threw"

\* C5 witness: a plain price node has been constructed as a price widget
C5_Witness ==
    /\ Plain /\ snode.type = "price"
    /\ sphase = "built" /\ sstate.type = "price"

-----------------------------------------------------------------------------
(* Scalar Field Widget (Node) in search mode: value and operator           *)

\* SearchOption.value (getter) without the check of state.options
SearchOptionValueRaw(type, sel) == sel

\* SearchOption.value (getter): 'exact' when no operator is offered, else
\* what the select shows
SearchOptionValue(type, sel) ==
    IF SearchOptions(type) = {} THEN "exact" ELSE sel

\* Node.value (getter) of the Node
WidgetGet == NodeGet(wmode, wel, SearchOptionValue(wtype, wsel))

\* the raw values a caller writes
WrittenVals == {Null, Str("x"), Str("zz")}

AllOps == UNION {SearchOptions(t) : t \in WidgetTypes}

\* the operators a descriptor written to a Node of the kind names: one its
\* SearchOption offers, any when it offers none
WritableOps(type) ==
    IF SearchOptions(type) = {} THEN AllOps ELSE SearchOptions(type)

\* what a caller writes: a raw value, in search mode also a descriptor
Writes(type, m) ==
    WrittenVals \cup
    IF m = "search"
    THEN {Desc(op, v) : op \in WritableOps(type), v \in WrittenVals}
    ELSE {}

AllWrites == UNION {Writes(t, "search") : t \in WidgetTypes}

\* Node.value (setter); SearchOption.value (setter) does nothing when the
\* SearchOption offers no operator
WSet(val) ==
    /\ val \in Writes(wtype, wmode)
    /\ wel' = NodeSetRaw(wmode, val)
    /\ wsel' = IF wmode = "search" /\ SearchOptions(wtype) # {}
               THEN NodeSetOp(wmode, val, wsel)
               ELSE wsel
    /\ wlast' = "set"
    /\ UNCHANGED <<wtype, wmode>>
    /\ UNCHANGED notWidget

\* the user types into the element
WChange(s) ==
    /\ wel' = Str(s)
    /\ wlast' = "change"
    /\ UNCHANGED <<wtype, wmode, wsel>>
    /\ UNCHANGED notWidget

\* SearchOption.change: the user picks an operator
WOperator(op) ==
    /\ wmode = "search"
    /\ op \in SearchOptions(wtype)
    /\ wsel' = op
    /\ wlast' = "operator"
    /\ UNCHANGED <<wtype, wmode, wel>>
    /\ UNCHANGED notWidget

WidgetNext ==
    \/ \E val \in AllWrites : WSet(val)
    \/ \E s \in Inputs : WChange(s)
    \/ \E op \in AllOps : WOperator(op)

WidgetInit ==
    /\ \E type \in WidgetTypes, m \in {"search", "update"},
          val \in {Null, Str("x")} : WidgetConstruct(type, m, val)
    /\ GroupIdle
    /\ FormIdle
    /\ ArrayIdle
    /\ TypeIdle
    /\ SelIdle
    /\ SearchIdle
    /\ ResIdle
    /\ TableIdle
    /\ DynIdle

SpecWidget == WidgetInit /\ [][WidgetNext]_vars

\* the raw value and the operator of a written value
WrittenValue(val) == IF isObject(val) THEN val[3] ELSE val
WrittenOp(val) == IF isObject(val) THEN val[2] ELSE "exact"

\* C16 (amended): in search mode a Node whose element is empty reads as
\* null whatever the operator.  Writing {type: op, value: v} with v not
\* empty and op not exact and then reading yields {type: op, value: v} when
\* the kind has an operator selector; writing a raw v, or a descriptor with
\* operator exact, and then reading yields raw v with operator exact;
\* writing an empty value reads back as null; kinds with no operator
\* selector (hidden, select, multiselectcsv) always read back the raw value.
C16_SearchValue ==
    [][/\ \A val \in AllWrites : (wmode = "search" /\ WSet(val)) =>
            /\ WidgetGet' =
                    IF WrittenValue(val) = Null THEN Null
                    ELSE IF SearchOptions(wtype) = {}
                            \/ WrittenOp(val) = "exact"
                    THEN WrittenValue(val)
                    ELSE Desc(WrittenOp(val), WrittenValue(val))
            /\ SearchOptions(wtype) # {} => wsel' = WrittenOp(val)
       /\ (wmode = "search" /\ SearchOptions(wtype) = {}) =>
            WidgetGet' = NodeBaseGet(wel')]_vars

\* C16 witness: a text Node in search mode was written the descriptor
\* {type: 'start', value: 'x'} and reads as that descriptor
C16_Witness ==
    /\ wmode = "search"
    /\ wtype = "text"
    /\ wlast = "set"
    /\ wsel = "start"
    /\ WidgetGet = Desc("start", Str("x"))

\* C16 (as claimed): in search mode reading yields the raw value when the
\* operator is exact and a {type: operator, value} descriptor otherwise;
\* writing {type: op, value: v} and then reading yields {type: op, value: v},
\* writing a raw v and then reading yields raw v with operator exact; kinds
\* with no operator selector always read back the raw value.
C16_Symmetric ==
    [][/\ \A val \in AllWrites : (wmode = "search" /\ WSet(val)) =>
            /\ WidgetGet' =
                    IF SearchOptions(wtype) = {} THEN WrittenValue(val)
                    ELSE val
            /\ ~isObject(val) => SearchOptionValue(wtype, wsel') = "exact"
       /\ (wmode = "search" /\ SearchOptions(wtype) # {}) =>
            WidgetGet' =
                    IF SearchOptionValue(wtype, wsel') = "exact"
                    THEN NodeBaseGet(wel')
                    ELSE Desc(wsel', NodeBaseGet(wel'))]_vars

-----------------------------------------------------------------------------
(* Dynamic Option Source: SelectBase, SelectCustom, SelectRest             *)

MaxCallbacks == 3
MaxSets == 2

\* option lists a caller sets or the backend returns
OptionLists == {"[o1]", "[o2]"}

\* this._callbacks.indexOf(callback): the first position, or 0 for -1
indexOf(cbs, c) ==
    IF \E i \in 1..Len(cbs) : cbs[i] = c
    THEN CHOOSE i \in 1..Len(cbs) :
            cbs[i] = c /\ \A j \in 1..(i-1) : cbs[j] # c
    ELSE 0

\* how often the function c is in the list
Occurrences(cbs, c) == Cardinality({i \in 1..Len(cbs) : cbs[i] = c})

\* SelectBase.notify: every entry of the list is called once, in order
Notified(cbs) == [c \in Callbacks |-> received[c] + Occurrences(cbs, c)]

\* a fetch guard that looks at the data instead of the flag: as long as no
\* options have arrived, a track() asks again
NeedsFetchNoData == sdata = NoOptions

\* if(!this._fetched)
NeedsFetch == ~fetched

\* track(callback): SelectBase.track, then what the subclass adds
STrack(c) ==
    /\ Len(callbacks) < MaxCallbacks
    /\ callbacks' = Append(callbacks, c)
    /\ gone' = gone \ {c}
    /\ IF skind = "rest" /\ NeedsFetch
       THEN /\ fetched' = TRUE
            /\ fetches' = fetches + 1
            /\ pending' = pending + 1
       ELSE UNCHANGED <<fetched, fetches, pending>>
    /\ slast' = "track"
    /\ UNCHANGED <<skind, sdata, received, sets, sevent, live>>
    /\ UNCHANGED notSel

\* track(callback, true)
SUntrack(c) ==
    /\ LET i == indexOf(callbacks, c) IN
       callbacks' = IF i > 0 THEN RemoveAt(callbacks, i) ELSE callbacks
    /\ gone' = gone \cup {c}
    /\ slast' = "untrack"
    /\ UNCHANGED <<skind, sdata, fetched, fetches, pending, received, sets, sevent, live>>
    /\ UNCHANGED notSel

\* SelectCustom.set(data)
SSet(d) ==
    /\ skind = "custom"
    /\ sets < MaxSets
    /\ sets' = sets + 1
    /\ sdata' = d
    /\ received' = Notified(callbacks)
    /\ slast' = "set"
    /\ UNCHANGED <<skind, callbacks, fetched, fetches, pending, gone, sevent, live>>
    /\ UNCHANGED notSel

\* what rest.read can be answered with
FetchOutcomes == {"data", "error", "handled", "warning"}

\* the .done callback of SelectRest._fetch
SResolve(out, d) ==
    /\ skind = "rest"
    /\ pending > 0
    /\ pending' = pending - 1
    /\ sevent' = CASE out = "error"   -> <<"error", "res.error">>
                    [] out = "warning" -> <<"warning", "res.warning">>
                    [] OTHER           -> sevent
    /\ IF out = "data"
       THEN /\ sdata' = d
            /\ received' = Notified(callbacks)
       ELSE UNCHANGED <<sdata, received>>
    /\ slast' = out
    /\ UNCHANGED <<skind, callbacks, fetched, fetches, gone, sets, live>>
    /\ UNCHANGED notSel

SelNext ==
    \/ \E c \in Callbacks : STrack(c)
    \/ \E c \in Callbacks : SUntrack(c)
    \/ \E d \in OptionLists : SSet(d)
    \/ \E out \in FetchOutcomes, d \in OptionLists : SResolve(out, d)

SelInit ==
    /\ \E kind \in {"custom", "rest"} : SelConstruct(kind)
    /\ GroupIdle
    /\ FormIdle
    /\ ArrayIdle
    /\ TypeIdle
    /\ SearchIdle
    /\ ResIdle
    /\ WidgetIdle
    /\ TableIdle
    /\ DynIdle

SpecSelect == SelInit /\ [][SelNext]_vars

\* SelectBase.notify while the callback who, each time it is called, calls
\* track(target, true): for(let f of this._callbacks) walks the list as it
\* is at each step, so a removal at or before the position moves the next
\* entry into the place just visited.  The list and the call counts after
\* position i has been reached
RECURSIVE Deliver(_, _, _, _, _)
Deliver(cbs, i, who, target, counts) ==
    IF i > Len(cbs) THEN [cbs |-> cbs, counts |-> counts]
    ELSE LET f == cbs[i]
             at == indexOf(cbs, target)
             rest == IF f = who /\ at > 0 THEN RemoveAt(cbs, at) ELSE cbs
         IN Deliver(rest, i + 1, who, target,
                    [counts EXCEPT ![f] = @ + 1])

\* SelectCustom.set(data) with such a callback among the subscribers
SSetUntracking(d, who, target) ==
    /\ skind = "custom"
    /\ sets < MaxSets
    /\ \E i \in 1..Len(callbacks) : callbacks[i] = who
    /\ sets' = sets + 1
    /\ sdata' = d
    /\ LET r == Deliver(callbacks, 1, who, target, received) IN
        /\ callbacks' = r.cbs
        /\ received' = r.counts
    /\ gone' = gone \cup {target}
    /\ slast' = "set"
    /\ UNCHANGED <<skind, fetched, fetches, pending, sevent, live>>
    /\ UNCHANGED notSel

\* a source whose subscribers may untrack while they are notified
NotifyNext ==
    \/ \E c \in Callbacks : STrack(c)
    \/ \E c \in Callbacks : SUntrack(c)
    \/ \E d \in OptionLists : SSet(d)
    \/ \E d \in OptionLists, who \in Callbacks, target \in Callbacks :
            SSetUntracking(d, who, target)

SpecNotify == SelInit /\ [][NotifyNext]_vars

\* C28: one notification calls every callback that was subscribed when it
\* started exactly once, also when a callback untracks itself or another
\* subscriber while the notification is delivered (stated for lists in
\* which every callback is registered once).
C28_NotifyComplete ==
    [][\A d \in OptionLists, who \in Callbacks, target \in Callbacks :
        (/\ \A c \in Callbacks : Occurrences(callbacks, c) <= 1
         /\ SSetUntracking(d, who, target)) =>
            \A c \in Callbacks :
                received'[c] = received[c] + Occurrences(callbacks, c)]_vars

\* the components that hand a callback to a source: a select widget, a
\* multi-select widget and a results table with a dynamic column
Components == {"select", "multiselect", "table"}

\* the component has a componentWillUnmount that calls track(callback, true)
\* with the function it registered: NodeSelect and Results do,
\* NodeMultiSelectCSV has no componentWillUnmount
Deregisters(c) == c \in {"select", "table"}

\* the component is constructed and mounted: NodeSelect and
\* NodeMultiSelectCSV track in the constructor, Results in componentDidMount
CMount(c) ==
    /\ c \notin live
    /\ Len(callbacks) < MaxCallbacks
    /\ live' = live \cup {c}
    /\ callbacks' = Append(callbacks, c)
    /\ gone' = gone \ {c}
    /\ IF skind = "rest" /\ NeedsFetch
       THEN /\ fetched' = TRUE
            /\ fetches' = fetches + 1
            /\ pending' = pending + 1
       ELSE UNCHANGED <<fetched, fetches, pending>>
    /\ slast' = "track"
    /\ UNCHANGED <<skind, sdata, received, sets, sevent>>
    /\ UNCHANGED notSel

\* the component unmounts
CUnmount(c) ==
    /\ c \in live
    /\ live' = live \ {c}
    /\ IF Deregisters(c)
       THEN /\ LET i == indexOf(callbacks, c) IN
               callbacks' = IF i > 0 THEN RemoveAt(callbacks, i) ELSE callbacks
            /\ gone' = gone \cup {c}
            /\ slast' = "untrack"
       ELSE /\ UNCHANGED <<callbacks, gone>>
            /\ slast' = "unmount"
    /\ UNCHANGED <<skind, sdata, fetched, fetches, pending, received, sets, sevent>>
    /\ UNCHANGED notSel

\* components mounting and unmounting on one source that is set and fetched
ObserverNext ==
    \/ \E c \in Components : CMount(c)
    \/ \E c \in Components : CUnmount(c)
    \/ \E d \in OptionLists : SSet(d)
    \/ \E out \in FetchOutcomes, d \in OptionLists : SResolve(out, d)

SpecObservers == SelInit /\ [][ObserverNext]_vars

\* C23: the subscriber list of a source holds callbacks of mounted
\* components only: a component that unmounts has taken its callback out.
C23_Deregistered ==
    \A i \in 1..Len(callbacks) : callbacks[i] \in live

\* C6: on a remote-fetched source no fetch is issued before the first
\* track(); every track() leaves the number of fetches issued at exactly
\* one, whether the fetch is still pending, has brought data or has failed;
\* and no other call (a removal, an answer arriving) issues a fetch.
C6_OneFetch ==
    [][skind = "rest" =>
        /\ (\E c \in Callbacks : STrack(c)) => fetches' = 1
        /\ ~(\E c \in Callbacks : STrack(c)) => fetches' = fetches]_vars

\* C6 witness: the fetch has failed, a second track() has been made after
\* that, and one fetch has been issued in all
C6_Witness ==
    /\ skind = "rest" /\ slast = "track" /\ Len(callbacks) = 2
    /\ pending = 0 /\ sevent = <<"error", "res.error">> /\ sdata = NoOptions
    /\ fetches = 1

\* the list without the entries of function c
Without(cbs, c) == SelectSeq(cbs, LAMBDA x : x # c)

\* C7 (as claimed): once track(callback, true) has been called for a
\* callback, no notification is delivered to it until it is tracked again;
\* the call leaves the other subscribers, their order and the option data as
\* they were, and every subscriber in the list is called by every notification.
C7_Untrack ==
    [][/\ \A c \in gone : received'[c] = received[c]
       /\ \A c \in Callbacks : SUntrack(c) =>
                /\ Without(callbacks', c) = Without(callbacks, c)
                /\ sdata' = sdata
       /\ \A c \in Callbacks :
                (slast' \in {"set", "data"} /\ indexOf(callbacks, c) > 0)
                    => received'[c] > received[c]]_vars

-----------------------------------------------------------------------------
(* Search Controller (Search) with its Group Widget in search mode, the    *)
(* URL-fragment slot (hash) and JSON                                       *)

MaxReads == 3

\* the order the Group Widget walks its children in (for k in this.fields)
KeyOrder == <<"a", "b">>

\* JSON.stringify of one value: null, a string, or a {type, value} object
JEnc(v) ==
    CASE v = Null     -> <<"jnull">>
      [] v[1] = "str" -> <<"jstring", v[2]>>
      [] v[1] = "obj" -> <<"jobject", <<"type", v[2]>>,
                                       <<"value", <<"jstring", v[3][2]>>>>>>

\* JSON.stringify of a mapping: its members in key order, a member whose
\* value is undefined left out
stringify(V) ==
    LET ks == SelectSeq(KeyOrder, LAMBDA k : k \in DOMAIN V /\ V[k] # Undef)
    IN  [i \in 1..Len(ks) |-> <<ks[i], JEnc(V[ks[i]])>>]

\* a decoder that keeps only the value of a {type, value} member
JDecFlat(j) ==
    CASE j[1] = "jnull"   -> Null
      [] j[1] = "jstring" -> Str(j[2])
      [] j[1] = "jobject" -> Str(j[3][2][2])

\* JSON.parse of one value
JDec(j) ==
    CASE j[1] = "jnull"   -> Null
      [] j[1] = "jstring" -> Str(j[2])
      [] j[1] = "jobject" -> Desc(j[2][2], Str(j[3][2][2]))

\* JSON.parse of the text of a mapping: its <<key, value>> pairs in order
parse(text) == [i \in 1..Len(text) |-> <<text[i][1], JDec(text[i][2])>>]

\* what the user can type into a search field
SearchInputs == {"", "x"}

\* the test for empty values left out of Search.search
emptyNever(values) == FALSE

\* empty(values) of a decoded mapping: it has no member
emptyValues(values) == Len(values) = 0

\* Search.search(values) on children holding f, e, o: decode, stop on an
\* empty mapping, push the values into the Group Widget, issue the read
SearchRun(text, f, e, o) ==
    LET values == parse(text) IN
    IF emptyValues(values)
    THEN /\ fval' = f /\ ferr' = e /\ sop' = o
         /\ UNCHANGED <<reads, lastFilter, xpending, gphase>>
    ELSE /\ ParentSetFrom(values, f, e, o)
         /\ IF SetThrows(values)
            THEN /\ gphase' = "threw"
                 /\ UNCHANGED <<reads, lastFilter, xpending>>
            ELSE /\ gphase' = "set"
                 /\ reads' = reads + 1
                 /\ xpending' = xpending + 1
                 /\ lastFilter' = AsMap(values)

\* Search.componentDidMount, after the Group Widget has been constructed
XMount ==
    /\ ~mounted
    /\ reads < MaxReads
    /\ mounted' = TRUE
    /\ IF slot.set
       THEN SearchRun(slot.text, [k \in Keys |-> Null],
                      [k \in Keys |-> NoError], [k \in Keys |-> "exact"])
       ELSE /\ fval' = [k \in Keys |-> Null]
            /\ ferr' = [k \in Keys |-> NoError]
            /\ sop' = [k \in Keys |-> "exact"]
            /\ UNCHANGED <<reads, lastFilter, xpending, gphase>>
    /\ xlast' = "mount"
    /\ UNCHANGED <<mode, returnAll, validation, orig, slot, changed, queried>>
    /\ UNCHANGED notSearch

\* Search.componentWillUnmount
XUnmount ==
    /\ mounted
    /\ mounted' = FALSE
    /\ xlast' = "unmount"
    /\ UNCHANGED groupVars
    /\ UNCHANGED <<slot, changed, reads, lastFilter, xpending, queried>>
    /\ UNCHANGED notSearch

\* Search.query (the Search button, or Enter in a field)
XQuery ==
    /\ mounted
    /\ IF ParentGet # EmptyMap
       THEN /\ slot' = [set |-> TRUE, text |-> stringify(ParentGet)]
            /\ changed' = TRUE
            /\ queried' = ParentGet
       ELSE UNCHANGED <<slot, changed, queried>>
    /\ xlast' = "query"
    /\ UNCHANGED groupVars
    /\ UNCHANGED <<mounted, reads, lastFilter, xpending>>
    /\ UNCHANGED notSearch

\* Search.clear
XClear ==
    /\ mounted
    /\ slot' = NoSlot
    /\ changed' = TRUE
    /\ xlast' = "clear"
    /\ UNCHANGED groupVars
    /\ UNCHANGED <<mounted, reads, lastFilter, xpending, queried>>
    /\ UNCHANGED notSearch

\* a subscription that outlives the controller
SubscribedStill == TRUE

\* this.search is among the subscribers of the slot: subscribed by
\* componentDidMount, unsubscribed by componentWillUnmount, both with the
\* function bound once in the constructor
Subscribed == mounted

\* the change of the slot reaches the subscribers: Search.search(value)
XHashChange ==
    /\ changed
    /\ reads < MaxReads
    /\ changed' = FALSE
    /\ IF Subscribed /\ slot.set
       THEN SearchRun(slot.text, fval, ferr, sop)
       ELSE UNCHANGED <<fval, ferr, sop, reads, lastFilter, xpending, gphase>>
    /\ xlast' = "search"
    /\ UNCHANGED <<mode, returnAll, validation, orig, slot, mounted, queried>>
    /\ UNCHANGED notSearch

\* Parent.error(errors) with a mapping that names the field e
ParentError(e, msg) ==
    IF e \in Keys
    THEN /\ ferr' = [ferr EXCEPT ![e] = msg]
         /\ UNCHANGED lastEvent
    ELSE /\ lastEvent' = <<"error", "Field not found error">>
         /\ UNCHANGED ferr

\* what props.handleErrors holds for a code: an object of field errors, a
\* function that returns one, or a function that returns something else
Handlers == {"object", "functionObject", "functionOther"}

\* Search.searchError(error), the handler of a mapped code being of kind h
\* and the field named by the message or by the handler's object being e
searchError(out, h, e) ==
    CASE out = "error1001"   -> ParentError(e, "rejected")
      [] out = "errorMapped" ->
            IF h = "functionOther"
            THEN UNCHANGED <<ferr, lastEvent>>
            ELSE ParentError(e, "handled")
      [] out = "errorOther"  -> lastEvent' = <<"error", "error">>
                                /\ UNCHANGED ferr

\* the answer to a read arrives while the controller is mounted (the .then
\* callback of Search.search)
XResolve(out, h, e) ==
    /\ mounted
    /\ xpending > 0
    /\ xpending' = xpending - 1
    /\ CASE out = "data" ->
                \* props.success(res.data)
                /\ xlast' = "success"
                /\ UNCHANGED <<ferr, lastEvent>>
         [] out = "errorHandled" ->
                \* res._handled: nothing is done
                /\ xlast' = "ignored"
                /\ UNCHANGED <<ferr, lastEvent>>
         [] OTHER ->
                /\ searchError(out, h, e)
                /\ xlast' = "error"
    /\ UNCHANGED <<mode, returnAll, validation, orig, fval, sop, gphase>>
    /\ UNCHANGED <<slot, changed, mounted, reads, lastFilter, queried>>
    /\ UNCHANGED <<fprops, inflight, calls, fphase>>
    /\ UNCHANGED <<arrayVars, typeVars, selVars, resVars, widgetVars,
                   tableVars, dynVars>>

SearchNext ==
    \/ XMount
    \/ XUnmount
    \/ XQuery
    \/ XClear
    \/ XHashChange
    \/ \E k \in Keys, s \in SearchInputs : mounted /\ GChange(k, s)
    \/ \E k \in Keys, op \in SearchOps : mounted /\ GOperator(k, op)

\* the Search Controller renders its Parent with type="search",
\* validation={false} and no value
SearchInit ==
    /\ mode = "search" /\ returnAll = FALSE /\ validation = FALSE
    /\ orig = EmptyMap
    /\ GroupConstruct
    /\ SearchIdle
    /\ FormIdle
    /\ ArrayIdle
    /\ TypeIdle
    /\ SelIdle
    /\ ResIdle
    /\ WidgetIdle
    /\ TableIdle
    /\ DynIdle

SpecSearch == SearchInit /\ [][SearchNext]_vars

\* the texts the slot can be given from outside the controller: the
\* fragment of a URL that is opened, "{}" among them
SlotTexts == {stringify(V) : V \in {EmptyMap} \cup {queried, lastFilter}}
             \cup {stringify([k \in {"a"} |-> Str("x")])}

\* the URL fragment is changed from outside (a link, back / forward)
XNavigate(text) ==
    /\ slot' = [set |-> TRUE, text |-> text]
    /\ changed' = TRUE
    /\ xlast' = "navigate"
    /\ UNCHANGED groupVars
    /\ UNCHANGED <<mounted, reads, lastFilter, xpending, queried>>
    /\ UNCHANGED notSearch

\* the Search Controller mounted and unmounted while the slot is written
\* from inside (query) and from outside
LifeNext ==
    \/ XMount
    \/ XUnmount
    \/ XQuery
    \/ XHashChange
    \/ \E text \in SlotTexts : XNavigate(text)
    \/ \E k \in Keys, s \in Inputs : mounted /\ GChange(k, s)

SpecLife == SearchInit /\ [][LifeNext]_vars

\* the Search Controller from its mount on, with the answers to its reads
AnswerNext ==
    \/ XMount
    \/ \E text \in SlotTexts : XNavigate(text)
    \/ XQuery
    \/ XHashChange
    \/ \E k \in Keys, s \in SearchInputs : mounted /\ GChange(k, s)
    \/ \E out \in Outcomes, h \in Handlers, e \in AllKeys : XResolve(out, h, e)

SpecAnswer == SearchInit /\ [][AnswerNext]_vars

\* C8: a query() made on a non-empty Group Widget value V stores V as JSON
\* in the slot, and every run of the search on the stored text - by the
\* change the query itself caused, or by a Search Controller mounted while
\* the slot holds it - issues a read whose filter is V.
C8_RoundTrip ==
    [][/\ (XQuery /\ ParentGet # EmptyMap) =>
                slot' = [set |-> TRUE, text |-> stringify(ParentGet)]
       /\ ((XMount \/ (XHashChange /\ mounted)) /\ slot.set) =>
                /\ reads' = reads + 1
                /\ lastFilter' = queried
                /\ queried # EmptyMap]_vars

\* what Form.submitError does with the same error: field errors for code
\* 1001, a global error event with the caller's message for a mapped code,
\* a global error event otherwise
RoutedAsForm(out, e) ==
    CASE out = "error1001" ->
            IF e \in Keys
            THEN ferr' = [ferr EXCEPT ![e] = "rejected"] /\ lastEvent' = lastEvent
            ELSE ferr' = ferr /\ ErrorEvent("Field not found error")
      [] out = "errorMapped" ->
            ferr' = ferr /\ ErrorEvent("props.errors[code]")
      [] out = "errorOther" ->
            /\ ferr' = ferr
            /\ lastEvent' \in {<<"error", "error">>,
                                <<"error", "JSON.stringify(error.msg)">>}

\* C19 (as claimed): the Search Controller routes the error of a read as
\* the Form Controller routes the error of a submit: for every code the
\* same outcome, field errors on the Group Widget for code 1001, the
\* caller's mapping for a mapped code, a global error event otherwise.
C19_RoutesAsForm ==
    [][\A out \in {"error1001", "errorMapped", "errorOther"},
          h \in Handlers, e \in AllKeys :
            XResolve(out, h, e) => RoutedAsForm(out, e)]_vars

\* the search runs to its read on the text the slot holds: the text decodes
\* to a non-empty mapping
RunsOn(text) == ~emptyValues(parse(text)) /\ ~SetThrows(parse(text))

\* C21: a mount subscribes and, when the slot holds a value, runs the
\* search on it at once, and does not search when the slot is unset; while
\* the controller is mounted every change of the slot runs the search on
\* the text written; while it is not mounted no step runs a search: no
\* read is issued and the Group Widget is not written.
C21_Lifecycle ==
    [][/\ XMount =>
            /\ mounted'
            /\ (slot.set /\ RunsOn(slot.text)) =>
                    /\ reads' = reads + 1
                    /\ lastFilter' = AsMap(parse(slot.text))
            /\ ~slot.set => reads' = reads
       /\ (XHashChange /\ mounted /\ slot.set /\ RunsOn(slot.text)) =>
            /\ reads' = reads + 1
            /\ lastFilter' = AsMap(parse(slot.text))
       /\ (XUnmount) => ~mounted'
       /\ (~mounted /\ ~mounted') =>
            /\ reads' = reads
            /\ lastFilter' = lastFilter
            /\ fval' = fval /\ sop' = sop /\ ferr' = ferr]_vars

\* C21 witness: a controller that searched on its mount has been unmounted,
\* the slot was written after that and the change was delivered: no second
\* read was issued
C21_Witness ==
    /\ ~mounted
    /\ xlast = "search"
    /\ slot.set /\ RunsOn(slot.text)
    /\ ~changed
    /\ reads = 1

\* C22: while validation is disabled (as under the Search Controller) no
\* scalar widget of the Group Widget shows a validation error, whatever the
\* user typed and whatever was written into the widgets, the write of
\* search() included.
C22_NoValidationError ==
    ~validation => \A k \in Keys : ferr[k] = NoError

\* C20: a search on a text that decodes to an empty value issues no read
\* and writes nothing into the Group Widget, on a change of the slot and on
\* mount alike; a query() on a Group Widget whose value is empty leaves the
\* slot as it is, so that no search and no read follow from it.
C20_ShortCircuit ==
    [][/\ (XHashChange /\ mounted /\ slot.set /\ Len(parse(slot.text)) = 0) =>
            /\ reads' = reads /\ xpending' = xpending
            /\ fval' = fval /\ ferr' = ferr /\ sop' = sop
       /\ (XMount /\ slot.set /\ Len(parse(slot.text)) = 0) =>
            /\ reads' = reads /\ xpending' = xpending
            /\ \A k \in Keys : fval'[k] = Null /\ ferr'[k] = NoError
       /\ (XQuery /\ ParentGet = EmptyMap) =>
            /\ slot' = slot /\ changed' = changed
            /\ reads' = reads /\ xpending' = xpending]_vars

\* C20 witness: the slot was given the text "{}" while the Group Widget
\* held a value; the search ran on it, no read was issued and the Group
\* Widget still holds the value
C20_Witness ==
    /\ mounted
    /\ xlast = "search"
    /\ slot = [set |-> TRUE, text |-> <<>>]
    /\ reads = 0
    /\ fval["a"] = Str("x")

\* C8 witness: a Search Controller mounted on a slot stored by an earlier
\* query has issued a read with the queried value, a starts-with descriptor
C8_Witness ==
    /\ xlast = "mount" /\ mounted /\ slot.set
    /\ reads > 0 /\ lastFilter = queried
    /\ queried = [a |-> Desc("start", Str("x"))]

-----------------------------------------------------------------------------
(* Results Table (Results): sorting and totals                             *)

MaxRows == 3

\* the rows a dataset is made of: records of the backend, where a column a
\* record does not carry is missing from the row (d[f] is undefined)
RowKinds ==
    {[x |-> 1, t |-> 3], [x |-> 3, t |-> 1], [x |-> 0, t |-> 2], [t |-> 2]}

DataSets == UNION {[1..n -> RowKinds] : n \in 0..MaxRows}

\* the rearrangements of a list of rows
Rearranged(data) ==
    LET n == Len(data) IN
    {[i \in 1..n |-> data[p[i]]] :
        p \in {q \in [1..n -> 1..n] : \A i, j \in 1..n : i # j => q[i] # q[j]}}

\* the comparator of sortData answers -1 (asc) both ways round for a row
\* that lacks the column against a row that has it (undefined > n and
\* n > undefined are both false): it is a consistent comparator only when
\* every row has the column or none has
Comparable(data, orderBy) ==
    \/ \A i \in 1..Len(data) : Has(data[i], orderBy)
    \/ \A i \in 1..Len(data) : ~Has(data[i], orderBy)

\* Array.prototype.sort with a consistent comparator: stable, equal values
\* keep their order
StableSorted(data, order, orderBy) ==
    LET n == Len(data)
        before(i, j) ==
            IF ~Has(data[i], orderBy) \/ data[i][orderBy] = data[j][orderBy]
            THEN i < j
            ELSE IF order = "asc" THEN data[i][orderBy] < data[j][orderBy]
                                  ELSE data[i][orderBy] > data[j][orderBy]
        p == CHOOSE q \in [1..n -> 1..n] :
                /\ \A i, j \in 1..n : i # j => q[i] # q[j]
                /\ \A i, j \in 1..n : i < j => before(q[i], q[j])
    IN  [i \in 1..n |-> data[p[i]]]

\* Results.sortData: the lists it can return.  With a comparator that is
\* not consistent the order Array.prototype.sort produces is
\* implementation-defined: any rearrangement of the rows
sortData(data, order, orderBy) ==
    IF Comparable(data, orderBy)
    THEN {StableSorted(data, order, orderBy)}
    ELSE Rearranged(data)

\* Results.orderChange: a click on the header of column col
ROrderChange(col) ==
    LET order == IF col = rorderBy
                 THEN (IF rorder = "asc" THEN "desc" ELSE "asc")
                 ELSE rorder
    IN  /\ rdata' \in sortData(rdata, order, col)
        /\ rorder' = order
        /\ rorderBy' = col
        /\ rlast' = "order"
        /\ UNCHANGED <<rprops, rtotals>>
        /\ UNCHANGED notRes

\* the owner hands the table other rows (Results.componentDidUpdate)
RNewData(data) ==
    /\ rprops' = [rprops EXCEPT !.data = data]
    /\ rdata' = data
    /\ rtotals' = IF rprops.totals THEN calculateTotals(ColType, data) ELSE rtotals
    /\ rlast' = "data"
    /\ UNCHANGED <<rorder, rorderBy>>
    /\ UNCHANGED notRes

ResNext ==
    \/ \E col \in Cols : ROrderChange(col)
    \/ \E data \in DataSets : RNewData(data)

ResInit ==
    /\ \E data \in DataSets, order \in {"asc", "desc"}, orderBy \in Cols,
          totals \in BOOLEAN : ResConstruct(data, order, orderBy, totals)
    /\ GroupIdle
    /\ FormIdle
    /\ ArrayIdle
    /\ TypeIdle
    /\ SelIdle
    /\ SearchIdle
    /\ WidgetIdle
    /\ TableIdle
    /\ DynIdle

SpecResults == ResInit /\ [][ResNext]_vars

\* the rows that have a value in column f are in the order the direction
\* asks for (rows without a value may stand anywhere)
SortedBy(data, order, f) ==
    \A i, j \in 1..Len(data) :
        (i < j /\ Has(data[i], f) /\ Has(data[j], f)) =>
            IF order = "asc" THEN data[i][f] <= data[j][f]
                             ELSE data[i][f] >= data[j][f]

\* C9 (as claimed): a click on the header of the active column flips the
\* direction, a click on another column makes it the active one and keeps
\* the direction, and after either click the rows of the table are sorted
\* by the active column in the resulting direction.
C9_OrderChange ==
    [][\A col \in Cols : ROrderChange(col) =>
            /\ rorderBy' = col
            /\ rorder' = IF col = rorderBy
                         THEN (IF rorder = "asc" THEN "desc" ELSE "asc")
                         ELSE rorder
            /\ SortedBy(rdata', rorder', rorderBy')]_vars

\* C30: in every state the rows the table holds are ordered by the active
\* sort column in the active direction, also right after construction and
\* right after the rows are replaced (stated for rows that all carry the
\* column, where the comparison of any two rows is defined).
C30_AlwaysSorted ==
    (\A i \in 1..Len(rdata) : Has(rdata[i], rorderBy)) =>
        SortedBy(rdata, rorder, rorderBy)

\* what a cell of the totals row shows
BlankCell == <<"">>
NumCell(n) == <<"number", n>>
ElapsedCell(n) == <<"elapsed", n>>
\* elapsed(undefined) of @ouroboros/dates: a text made from no number
ElapsedOfUndefined == <<"elapsed(undefined)">>

\* TotalsRow: the cell of column f
TotalsCell(f) ==
    IF ColType[f] \in {"time_elapsed", "time_average"}
    THEN IF f \in DOMAIN rtotals THEN ElapsedCell(rtotals[f])
                                  ELSE ElapsedOfUndefined
    ELSE IF f \in DOMAIN rtotals /\ rtotals[f] # 0 THEN NumCell(rtotals[f])
                                                    ELSE BlankCell

\* C10 (as claimed): with totals enabled, after construction and after
\* every replacement of the row data the totals row shows, for the numeric
\* column, the sum of the column over all rows (a missing value counting as
\* 0), for the time_average column the integer part of the sum divided by
\* the number of rows, and with no rows a blank in every column.
C10_Totals ==
    (rprops.totals /\ rlast \in {"new", "data"}) =>
        /\ Len(rdata) > 0 =>
                /\ TotalsCell("x") = NumCell(SumCol(rdata, "x"))
                /\ TotalsCell("t") = ElapsedCell(SumCol(rdata, "t") \div Len(rdata))
        /\ Len(rdata) = 0 => \A f \in Cols : TotalsCell(f) = BlankCell

-----------------------------------------------------------------------------
(* Results Table (Results, ResultsRow): paging, CSV export, inline edit     *)

\* the rows of a table with a primary key: record i has the key i and a
\* value in column x, or no column x at all
TableRowsOf(i) == {[_id |-> i], [_id |-> i, x |-> 0], [_id |-> i, x |-> 1]}

TableData ==
    UNION {{d \in [1..n -> UNION {TableRowsOf(i) : i \in 1..n}] :
                \A i \in 1..n : d[i] \in TableRowsOf(i)} : n \in 0..MaxRows}

Min(a, b) == IF a < b THEN a ELSE b

\* Results.render: the positions of state.data the page shows
\* (rowsPerPage > 0 ? data.slice(page * rowsPerPage, ...) : data)
PageSlice(data, page, perPage) ==
    IF perPage > 0
    THEN (page * perPage + 1)..Min(Len(data), page * perPage + perPage)
    ELSE 1..Len(data)

\* the primary keys of the ResultsRow components that are rendered
Rendered(data, page, perPage) ==
    {data[i]._id : i \in PageSlice(data, page, perPage)}

\* the pages TablePagination lets the user go to
Pages(data, perPage) ==
    IF perPage > 0 /\ Len(data) > 0
    THEN 0..((Len(data) + perPage - 1) \div perPage - 1)
    ELSE {0}

\* Results.pageChange; the rows that leave the page are unmounted and
\* their state is gone
RPageChange(page) ==
    /\ page \in Pages(rdata, rperPage)
    /\ rpage' = page
    /\ redit' = redit \cap Rendered(rdata, page, rperPage)
    /\ UNCHANGED <<rperPage, rupdate, rexport, revent, rupdated>>
    /\ UNCHANGED resVars
    /\ UNCHANGED notTable

\* Results.perPageChange
RPerPageChange(perPage) ==
    /\ rperPage' = perPage
    /\ rpage' = 0
    /\ redit' = redit \cap Rendered(rdata, 0, perPage)
    /\ UNCHANGED <<rupdate, rexport, revent, rupdated>>
    /\ UNCHANGED resVars
    /\ UNCHANGED notTable

\* the export of the rows the page shows only
ExportRowsOfPage ==
    [i \in 1..Cardinality(PageSlice(rdata, rpage, rperPage)) |->
        rdata[IF rperPage > 0 THEN rpage * rperPage + i ELSE i]]

\* the rows handed to stringifyRecords: this.state.data
ExportRows == rdata

\* createObjectCsvStringifier with the header made of the keys of the first
\* row: every record gives one line with one cell per header column, empty
\* where the record has no such key
stringifyRecords(header, data) ==
    [i \in 1..Len(data) |->
        [k \in header |-> IF Has(data[i], k) THEN <<data[i][k]>> ELSE <<>>]]

\* Results.exportCsv
RExportCsv ==
    /\ IF Len(rdata) = 0
       THEN /\ revent' = "No data to export to CSV"
            /\ UNCHANGED rexport
       ELSE /\ rexport' = [done    |-> TRUE,
                           header  |-> DOMAIN rdata[1],
                           records |-> stringifyRecords(DOMAIN rdata[1],
                                                        ExportRows)]
            /\ UNCHANGED revent
    /\ UNCHANGED <<rpage, rperPage, rupdate, redit, rupdated>>
    /\ UNCHANGED resVars
    /\ UNCHANGED notTable

\* ResultsRow: a click on the edit icon, shown when props.update is truthy
REditToggle(id) ==
    /\ rupdate # "false"
    /\ id \in Rendered(rdata, rpage, rperPage)
    /\ redit' = IF id \in redit THEN redit \ {id} ELSE redit \cup {id}
    /\ UNCHANGED <<rpage, rperPage, rupdate, rexport, revent, rupdated>>
    /\ UNCHANGED resVars
    /\ UNCHANGED notTable

\* the values the embedded Form Controller reports on success
EditValues == {[x |-> 5], [x |-> 0], [t |-> 7]}

\* for(let k in values) ret[k] = values[k], on a clone of the row
Merged(row, values) ==
    [k \in DOMAIN row \cup DOMAIN values |->
        IF k \in DOMAIN values THEN values[k] ELSE row[k]]

\* the row of the table with the primary key id
RowOf(id) == rdata[CHOOSE i \in 1..Len(rdata) : rdata[i]._id = id]

\* ResultsRow.updateSuccess(values).  props.update of the row is the
\* props.update of the table (render: update={this.props.update}), not
\* Results.recordChanged: state.data of the table is not touched
RUpdateSuccess(id, values) ==
    /\ id \in redit
    /\ rupdated' = IF rupdate = "function"
                   THEN <<Merged(RowOf(id), values)>>
                   ELSE rupdated
    /\ redit' = redit \ {id}
    /\ UNCHANGED <<rpage, rperPage, rupdate, rexport, revent>>
    /\ UNCHANGED resVars
    /\ UNCHANGED notTable

TableNext ==
    \/ \E page \in 0..MaxRows : RPageChange(page)
    \/ \E perPage \in PerPageOptions : RPerPageChange(perPage)
    \/ RExportCsv
    \/ \E id \in 1..MaxRows : REditToggle(id)
    \/ \E id \in 1..MaxRows, values \in EditValues : RUpdateSuccess(id, values)

TableInit ==
    /\ \E data \in TableData, totals \in BOOLEAN :
            ResConstruct(data, "asc", "x", totals)
    /\ \E perPage \in PerPageOptions, update \in {"false", "true", "function"} :
            TableConstruct(perPage, update)
    /\ GroupIdle
    /\ FormIdle
    /\ ArrayIdle
    /\ TypeIdle
    /\ SelIdle
    /\ SearchIdle
    /\ WidgetIdle
    /\ DynIdle

SpecTable == TableInit /\ [][TableNext]_vars

\* a table that is paged while its owner replaces the rows
PagingNext ==
    \/ \E page \in 0..MaxRows : RPageChange(page)
    \/ \E perPage \in PerPageOptions : RPerPageChange(perPage)
    \/ \E data \in TableData : RNewData(data)

SpecPaging == TableInit /\ [][PagingNext]_vars

\* C29: the page index is a page of the rows the table holds, so a table
\* with rows never shows an empty page, and with 'All' chosen every row is
\* shown.
C29_ValidPage ==
    /\ rpage \in Pages(rdata, rperPage)
    /\ Len(rdata) > 0 => PageSlice(rdata, rpage, rperPage) # {}
    /\ rperPage = -1 => PageSlice(rdata, rpage, rperPage) = 1..Len(rdata)

\* C17: a CSV export of a table with no rows raises the global error event
\* and produces no download; with rows the download has one record per row
\* of the table's whole data, in the order of the data, whatever the page
\* and the page size are.
C17_ExportCsv ==
    [][RExportCsv =>
        IF Len(rdata) = 0
        THEN /\ revent' = "No data to export to CSV"
             /\ rexport' = rexport
        ELSE /\ rexport'.done
             /\ Len(rexport'.records) = Len(rdata)
             /\ \A i \in 1..Len(rdata) :
                    rexport'.records[i] =
                        [k \in DOMAIN rdata[1] |->
                            IF Has(rdata[i], k) THEN <<rdata[i][k]>> ELSE <<>>]
             /\ revent' = revent]_vars

\* C17 witness: a table of three rows showing its second page of one row
\* has exported all three rows
C17_Witness ==
    /\ Len(rdata) = 3
    /\ rperPage = 1
    /\ rpage = 1
    /\ rexport.done
    /\ Len(rexport.records) = 3
    /\ revent = "none"

\* C18 (as claimed): after the embedded Form Controller reports success
\* with values W for a row, the table's row with that primary key is the old
\* row merged with W, the other rows are unchanged and the row is no longer
\* in edit mode.
C18_InlineEdit ==
    [][\A id \in 1..MaxRows, values \in EditValues :
        RUpdateSuccess(id, values) =>
            /\ rdata' = [i \in 1..Len(rdata) |->
                            IF rdata[i]._id = id
                            THEN Merged(rdata[i], values)
                            ELSE rdata[i]]
            /\ id \notin redit']_vars

-----------------------------------------------------------------------------
(* Group Widget with dynamicOptions (Parent, SelectHash, NodeSelect)       *)

MaxBindings == 2

notDyn == <<groupVars, formVars, arrayVars, typeVars, selVars, searchVars,
            resVars, widgetVars, tableVars>>

\* the dynamicOptions lists a Group Widget can be given
Bindings == [node : Dependents, trigger : Triggers]
BindingLists ==
    UNION {[1..n -> Bindings] : n \in 1..MaxBindings}

\* the values a trigger field starts with and the texts it is changed to
TriggerValues == {Null, Str("k1"), Str("zz")}
TriggerInputs == {"", "k1", "k2", "zz"}

\* a === b between an option of a list (an array) and a widget value (a
\* string or null): an array is identical to itself only
StrictEq(a, b) == IF a[1] = "arr" \/ b[1] = "arr" THEN FALSE ELSE a = b

\* data.indexOf(value) === -1
NotInList(data, v) == ~\E j \in 1..Len(data) : StrictEq(data[j], v)

\* the list has an option whose key is the value
HasOption(data, v) ==
    v[1] = "str" /\ \E j \in 1..Len(data) : data[j][2] = v[2]

\* NodeSelect.dynamicData(data): the value the widget is left with
dynamicData(data, v) == IF NotInList(data, v) THEN Str("") ELSE v

\* the change handler of the widget of trigger t: the widget keeps the
\* text and calls props.onChange, which is SelectHash.key of the binding
\* wired to t: the key is stored and notify() hands the list to the
\* subscribed select widgets
TChange(t, s) ==
    LET i == Wired(dbind, t)
        data == SelectHashData(Str(s)) IN
    /\ Len(dbind) > 0
    /\ tval' = [tval EXCEPT ![t] = Str(s)]
    /\ IF i > 0
       THEN /\ dkey' = [dkey EXCEPT ![i] = Str(s)]
            /\ dopts' = [d \in Dependents |->
                            IF d \in Subscribers(dbind, i)
                            THEN data ELSE dopts[d]]
            /\ dval' = [d \in Dependents |->
                            IF d \in Subscribers(dbind, i)
                            THEN dynamicData(data, dval[d]) ELSE dval[d]]
       ELSE UNCHANGED <<dkey, dopts, dval>>
    /\ dlast' = <<"change", t>>
    /\ UNCHANGED dbind
    /\ UNCHANGED notDyn

\* NodeSelect.change of a dependent field: the user picks an option of the
\* list the widget shows
DSelect(d, j) ==
    /\ j \in 1..Len(dopts[d])
    /\ dval' = [dval EXCEPT ![d] = Str(dopts[d][j][2])]
    /\ dlast' = <<"select", d>>
    /\ UNCHANGED <<dbind, tval, dkey, dopts>>
    /\ UNCHANGED notDyn

DynNext ==
    \/ \E t \in Triggers, s \in TriggerInputs : TChange(t, s)
    \/ \E d \in Dependents, j \in 1..2 : DSelect(d, j)

DynInit ==
    /\ \E B \in BindingLists, init \in [Triggers -> TriggerValues] :
            DynConstruct(B, init)
    /\ GroupIdle
    /\ FormIdle
    /\ ArrayIdle
    /\ TypeIdle
    /\ SelIdle
    /\ SearchIdle
    /\ ResIdle
    /\ WidgetIdle
    /\ TableIdle

SpecDyn == DynInit /\ [][DynNext]_vars

\* the list binding i's source offers for the value v of its trigger
Offered(v) == IF v \in {Str(k) : k \in HashKeys} THEN OptionsOf(v[2]) ELSE <<>>

\* C24: for every binding, the select widget tracking the binding's source
\* starts with the list for the trigger's initial value (the empty list
\* when there is none or it is not a key), and every change of the
\* binding's trigger field to a value v hands the list for v (the empty
\* list when v is not a key) to every subscriber of the binding's source.
C24_Bindings ==
    /\ \A i \in 1..Len(dbind) : \A d \in Subscribers(dbind, i) :
            dopts[d] = Offered(tval[dbind[i].trigger])
    /\ [][\A t \in Triggers, s \in TriggerInputs :
            TChange(t, s) =>
                \A i \in 1..Len(dbind) :
                    dbind[i].trigger = t =>
                        \A d \in Subscribers(dbind, i) :
                            dopts'[d] = Offered(Str(s))]_vars

\* C27: when the source of a select widget hands it a new list, the widget
\* keeps its value if the list has an option with that key, and is reset to
\* the empty value only if it has none.
C27_KeepsValue ==
    [][\A t \in Triggers, s \in TriggerInputs :
        (TChange(t, s) /\ Wired(dbind, t) > 0) =>
            \A d \in Subscribers(dbind, Wired(dbind, t)) :
                dval'[d] = IF HasOption(dopts'[d], dval[d])
                           THEN dval[d] ELSE Str("")]_vars

====
